---------------------------- MODULE Spec2Model ----------------------------
(***************************************************************************)
(* A model of _tools/modernize.py: the nested-div extractor, the div       *)
(* rebalancer, the page assembler with the "already modernized" detector,  *)
(* and the driver main().                                                  *)
(*                                                                         *)
(* A text is a sequence of one-character strings.  Python indices are      *)
(* 0-based, so html[i] of the source is html[i + 1] here; the operators    *)
(* below take and return the source's 0-based positions.                   *)
(***************************************************************************)
EXTENDS Integers, Sequences, FiniteSets, TLC

VARIABLES
    pc,         \* where the modelled run is
    \* the scanners (balance_divs, extract_div_content)
    html,       \* the text a scanner works on
    start_pos,  \* extract_div_content: its start_pos argument
    pos,        \* the scanners' pos
    depth,      \* the scanners' depth
    result,     \* balance_divs: ''.join(result) so far
    pass,       \* balance_divs: 1 = first run, 2 = the run on the first run's output
    first,      \* balance_divs: what the first run returned
    iters,      \* loop iterations of the scanner so far
    ret,        \* extract_div_content: the returned (text, end) pair
    \* make_page and the detector
    args,       \* make_page's arguments
    page,       \* the document make_page returned
    modernized, \* what the detector of main() says of page
    \* main()
    files,      \* the discovered candidates, sorted
    disk,       \* the document each candidate holds on disk
    readable,   \* the candidates whose read_text succeeds
    originals,  \* main's originals: path -> snapshot, for the paths whose read succeeded
    idx,        \* position of the running for loop in files
    modified,   \* main's modified counter
    attempted,  \* candidates whose snapshot read has been attempted
    reported,   \* candidates whose read error was caught and printed
    written,    \* candidates process_file has overwritten
    trues,      \* candidates for which process_file returned True
    uncaught,   \* the exception that ended the run, or "none"
    restore_failed, \* the git checkout returned a nonzero code
    last,       \* the last process_file call: arguments, outcome, disk before and after
    base,       \* the documents as the snapshot reads find them (after a restore)
    called      \* candidates process_file has been called for

scanVars == <<html, start_pos, pos, depth, result, pass, first, iters, ret>>
pageVars == <<args, page, modernized>>
mainVars == <<files, disk, readable, originals, idx, modified, attempted,
              reported, written, trues, uncaught, restore_failed, last,
              base, called>>
vars == <<pc, scanVars, pageVars, mainVars>>

None == [none |-> TRUE]

\* the parts of the state a specification does not use
ScanIdle ==
    /\ html = <<>> /\ start_pos = 0 /\ pos = 0 /\ depth = 0 /\ result = <<>>
    /\ pass = 0 /\ first = <<>> /\ iters = 0 /\ ret = None
PageIdle == args = None /\ page = <<>> /\ modernized = FALSE
MainIdle ==
    /\ files = <<>> /\ disk = <<>> /\ readable = {} /\ originals = <<>>
    /\ idx = 0 /\ modified = 0 /\ attempted = {} /\ reported = {}
    /\ written = {} /\ trues = {} /\ uncaught = "none"
    /\ restore_failed = FALSE /\ last = None /\ base = <<>> /\ called = {}

-----------------------------------------------------------------------------
(* Texts *)

\* the ASCII white space \s and strip() know
Space == {" ", "\t", "\n", "\r", "\f"}

\* the literals the two scanners look for
OpenLit == <<"<", "d", "i", "v">>
CloseLit == <<"<", "/", "d", "i", "v", ">">>
CloseHead == <<"<", "/", "d", "i", "v">>
Gt == <<">">>

Min(a, b) == IF a < b THEN a ELSE b

\* Python's html[a:b] for 0 <= a, 0 <= b
Slice(s, a, b) == SubSeq(s, a + 1, Min(b, Len(s)))

\* Python's html[a:]
SliceFrom(s, a) == SubSeq(s, a + 1, Len(s))

\* whether pat occurs in s at 0-based position p
StartsWith(s, p, pat) ==
    /\ p + Len(pat) <= Len(s)
    /\ SubSeq(s, p + 1, p + Len(pat)) = pat

\* Python's s.find(pat, p): the lowest position >= p where pat occurs, else -1
Find(s, pat, p) ==
    LET hits == {q \in p..(Len(s) - Len(pat)) : StartsWith(s, q, pat)}
    IN  IF hits = {} THEN -1 ELSE CHOOSE q \in hits : \A r \in hits : q <= r

\* pat in s
Contains(s, pat) == Find(s, pat, 0) # -1

RECURSIVE Flatten(_)
Flatten(ss) == IF ss = <<>> THEN <<>> ELSE Head(ss) \o Flatten(Tail(ss))

\* the texts made of at most n fragments drawn from frags
TextsOf(frags, n) == {Flatten(fs) : fs \in UNION {[1..k -> frags] : k \in 0..n}}

-----------------------------------------------------------------------------
(* balance_divs *)

\* re.match(r'<div[\s>]', html[pos:])
OpenMatch(s, p) ==
    /\ StartsWith(s, p, OpenLit)
    /\ p + 4 < Len(s)
    /\ s[p + 5] \in Space \cup {">"}

\* re.match(r'</div\s*>', html[pos:]).end(), or -1 when there is no match
CloseMatchEnd(s, p) ==
    IF ~StartsWith(s, p, CloseHead) THEN -1
    ELSE LET stops == {q \in (p + 5)..(Len(s) - 1) : s[q + 1] \notin Space}
         IN  IF stops = {} THEN -1
             ELSE LET q == CHOOSE x \in stops : \A y \in stops : x <= y
                  IN  IF s[q + 1] = ">" THEN q + 1 - p ELSE -1

\* end = html.find('>', pos) + 1
OpenEnd(s, p) == Find(s, Gt, p) + 1

\* one iteration of the while loop, from the loop state st = [pos, depth, result]
BalanceIter(s, st) ==
    IF OpenMatch(s, st.pos)
    THEN LET end == OpenEnd(s, st.pos)
         IN  [pos |-> end, depth |-> st.depth + 1,
              result |-> st.result \o Slice(s, st.pos, end)]
    ELSE IF CloseMatchEnd(s, st.pos) # -1
    THEN LET n == CloseMatchEnd(s, st.pos)
         IN  [pos |-> st.pos + n,
              depth |-> IF st.depth > 0 THEN st.depth - 1 ELSE st.depth,
              result |-> IF st.depth > 0
                         THEN st.result \o Slice(s, st.pos, st.pos + n)
                         ELSE st.result]
    ELSE [pos |-> st.pos + 1, depth |-> st.depth,
          result |-> st.result \o <<s[st.pos + 1]>>]

\* the fragments the rebalancer's inputs are made of
MaxFrags == 4
BalanceFrags ==
    { <<"<">>, <<"/">>, <<">">>, <<" ">>, <<"x">>,
      OpenLit, CloseLit, <<"d", "i", "v", ">">> }

BalanceInit ==
    /\ html \in TextsOf(BalanceFrags, MaxFrags)
    /\ pc = "balance"
    /\ pos = 0
    /\ depth = 0
    /\ result = <<>>
    /\ pass = 1
    /\ first = <<>>
    /\ iters = 0
    /\ start_pos = 0
    /\ ret = None
    /\ PageIdle
    /\ MainIdle

\* one iteration of `while pos < len(html)`.  In a run that ends, depth and
\* len(result) never exceed len(html); the guard stops the model of a run
\* that has left that range.
BalanceStep ==
    /\ pc = "balance"
    /\ pos < Len(html)
    /\ depth <= Len(html)
    /\ Len(result) <= Len(html)
    /\ LET n == BalanceIter(html, [pos |-> pos, depth |-> depth, result |-> result])
       IN  /\ pos' = n.pos
           /\ depth' = n.depth
           /\ result' = n.result
    /\ iters' = iters + 1
    /\ UNCHANGED <<pc, html, pass, first, start_pos, ret, pageVars, mainVars>>

\* return ''.join(result) of the first run; the second run is given that text
BalanceReturnFirst ==
    /\ pc = "balance"
    /\ pos >= Len(html)
    /\ pass = 1
    /\ first' = result
    /\ html' = result
    /\ pass' = 2
    /\ pos' = 0
    /\ depth' = 0
    /\ result' = <<>>
    /\ iters' = 0
    /\ UNCHANGED <<pc, start_pos, ret, pageVars, mainVars>>

\* return ''.join(result) of the second run
BalanceReturnSecond ==
    /\ pc = "balance"
    /\ pos >= Len(html)
    /\ pass = 2
    /\ pc' = "balanced"
    /\ UNCHANGED <<html, pos, depth, result, pass, first, iters, start_pos, ret,
                   pageVars, mainVars>>

BalanceNext == BalanceStep \/ BalanceReturnFirst \/ BalanceReturnSecond

SpecBalance == BalanceInit /\ [][BalanceNext]_vars

(* C10: every iteration of balance_divs's scan moves pos strictly forward,
   also at an opening div tag with no '>' anywhere after it, so the scan
   reaches the end of the text. *)
C10_Progress ==
    [][(pc = "balance" /\ pc' = "balance" /\ pass' = pass) => pos' > pos]_vars

(* C1: rebalancing is idempotent: the run of balance_divs on its own output
   returns that output again. *)
C1_Idempotent == pc = "balanced" => result = first

\* Read a text tag by tag from position p with d opening div tags unmatched
\* so far: an opening div tag runs to its own '>', and a closing div tag must
\* find an opening div tag before it that is still unmatched.
RECURSIVE BalancedFrom(_, _, _)
BalancedFrom(s, p, d) ==
    IF p >= Len(s) THEN TRUE
    ELSE IF OpenMatch(s, p)
    THEN Find(s, Gt, p) = -1 \/ BalancedFrom(s, Find(s, Gt, p) + 1, d + 1)
    ELSE IF CloseMatchEnd(s, p) # -1
    THEN d > 0 /\ BalancedFrom(s, p + CloseMatchEnd(s, p), d - 1)
    ELSE BalancedFrom(s, p + 1, d)

\* in every prefix, at most as many closing div tags as opening div tags before them
PrefixBalanced(s) == BalancedFrom(s, 0, 0)

(* C2: the text balance_divs returns is prefix-balanced for div tags: no
   closing div tag without an earlier unmatched opening div tag. *)
C2_PrefixBalanced == pass = 2 => PrefixBalanced(first)

-----------------------------------------------------------------------------
(* extract_div_content *)

\* a test without the comparison: any opening tag ahead is taken first
OpenFirstNoCompare(next_open, next_close) == next_open # -1

\* if next_open != -1 and next_open < next_close
OpenFirst(next_open, next_close) == next_open # -1 /\ next_open < next_close

\* a scan that does not step over the opening tag it found
AfterOpenStuck(next_open) == next_open

\* pos = next_open + 4
AfterOpen(next_open) == next_open + 4

\* pos = next_close + 6
AfterClose(next_close) == next_close + 6

\* the fall-through return: return html[start_pos:], len(html)
ExtractRest(s, start) == [text |-> SliceFrom(s, start), end |-> Len(s)]

\* one iteration of the while loop from the loop state st = [pos, depth]:
\* the next loop state, and ret when the iteration returns or breaks
ExtractIter(s, start, st) ==
    LET next_open == Find(s, OpenLit, st.pos)
        next_close == Find(s, CloseLit, st.pos)
    IN  IF next_close = -1
        THEN [pos |-> st.pos, depth |-> st.depth, ret |-> ExtractRest(s, start)]
        ELSE IF OpenFirst(next_open, next_close)
        THEN [pos |-> AfterOpen(next_open), depth |-> st.depth + 1, ret |-> None]
        ELSE IF st.depth - 1 = 0
        THEN [pos |-> st.pos, depth |-> st.depth - 1,
              ret |-> [text |-> Slice(s, start, next_close),
                       end |-> AfterClose(next_close)]]
        ELSE [pos |-> AfterClose(next_close), depth |-> st.depth - 1, ret |-> None]

\* extract_div_content(html, start_pos) as a whole
RECURSIVE ExtractLoop(_, _, _)
ExtractLoop(s, start, st) ==
    IF ~(st.depth > 0 /\ st.pos < Len(s)) THEN ExtractRest(s, start)
    ELSE LET n == ExtractIter(s, start, st)
         IN  IF n.ret # None THEN n.ret ELSE ExtractLoop(s, start, n)

ExtractDivContent(s, start) == ExtractLoop(s, start, [pos |-> start, depth |-> 1])

\* the fragments the extractor's inputs are made of
MaxExtractFrags == 4
ExtractFrags == { <<"<">>, <<">">>, <<"x">>, OpenLit, CloseLit }

ExtractInit ==
    /\ html \in TextsOf(ExtractFrags, MaxExtractFrags)
    /\ start_pos \in 0..Len(html)
    /\ pc = "extract"
    /\ pos = start_pos
    /\ depth = 1
    /\ iters = 0
    /\ ret = None
    /\ result = <<>>
    /\ pass = 0
    /\ first = <<>>
    /\ PageIdle
    /\ MainIdle

\* one iteration of `while depth > 0 and pos < len(html)`
ExtractStep ==
    /\ pc = "extract"
    /\ depth > 0
    /\ pos < Len(html)
    /\ LET n == ExtractIter(html, start_pos, [pos |-> pos, depth |-> depth])
       IN  /\ pos' = n.pos
           /\ depth' = n.depth
           /\ ret' = n.ret
           /\ pc' = IF n.ret # None THEN "extracted" ELSE "extract"
    /\ iters' = iters + 1
    /\ UNCHANGED <<html, start_pos, result, pass, first, pageVars, mainVars>>

\* the loop condition fails: return html[start_pos:], len(html)
ExtractFallThrough ==
    /\ pc = "extract"
    /\ ~(depth > 0 /\ pos < Len(html))
    /\ ret' = ExtractRest(html, start_pos)
    /\ pc' = "extracted"
    /\ UNCHANGED <<html, start_pos, pos, depth, iters, result, pass, first,
                   pageVars, mainVars>>

ExtractNext == ExtractStep \/ ExtractFallThrough

SpecExtract == ExtractInit /\ [][ExtractNext]_vars

(* C3: extract_div_content is total: from every start position in
   0..len(html) the scan ends (every iteration that continues consumes at
   least four characters and pos stays within the text) and returns a
   substring of html that begins at start_pos, no longer than
   len(html) - start_pos, with an end position in start_pos..len(html). *)
C3_Total ==
    /\ pc = "extract" =>
        /\ pos \in start_pos..Len(html)
        /\ 4 * iters <= pos - start_pos
        /\ ret = None
    /\ pc = "extracted" =>
        /\ ret # None
        /\ Len(ret.text) <= Len(html) - start_pos
        /\ ret.text = Slice(html, start_pos, start_pos + Len(ret.text))
        /\ ret.end \in start_pos..Len(html)

\* malformed nesting: the scan started inside the text, met further opening
\* tags that are never closed, and returned
C3_Witness ==
    /\ pc = "extracted"
    /\ start_pos > 0
    /\ iters >= 2
    /\ depth > 1

\* the region by a character-by-character depth count: depth starts at 1,
\* an opening tag of the div element adds 1, a closing div tag subtracts 1
RECURSIVE DepthScan(_, _, _, _)
DepthScan(s, start, i, d) ==
    IF i >= Len(s) THEN [text |-> SliceFrom(s, start), end |-> Len(s)]
    ELSE IF StartsWith(s, i, OpenLit) THEN DepthScan(s, start, i + 1, d + 1)
    ELSE IF StartsWith(s, i, CloseLit)
    THEN IF d - 1 = 0
         THEN [text |-> Slice(s, start, i), end |-> i + Len(CloseLit)]
         ELSE DepthScan(s, start, i + 1, d - 1)
    ELSE DepthScan(s, start, i + 1, d)

(* C4: extract_div_content returns the text from start_pos up to (not
   including) the first closing tag at which the depth count, started at 1,
   becomes 0, with the end position just past that tag; when depth never
   reaches 0 it returns the rest of the document and len(html).  A tag is
   what the scanner looks for: '<div' opens, '</div>' closes. *)
C4_MatchingClose == pc = "extracted" => ret = DepthScan(html, start_pos, start_pos, 1)

\* a nested div closed inside the region, the region closed before the end
C4_Witness ==
    /\ pc = "extracted"
    /\ ret.end < Len(html)
    /\ Contains(ret.text, OpenLit)
    /\ Contains(ret.text, CloseLit)

-----------------------------------------------------------------------------
(* make_page and the "already modernized" detector *)

\* the f-string of make_page, cut at its placeholders
PageHead ==
    << "<", "!", "D", "O", "C", "T", "Y", "P", "E", " ", "h", "t", "m", "l",
       ">", "\n", "<", "h", "t", "m", "l", " ", "l", "a", "n", "g", "=",
       "\"", "e", "n", "\"", ">", "\n", "<", "h", "e", "a", "d", ">", "\n",
       " ", " ", "<", "m", "e", "t", "a", " ", "c", "h", "a", "r", "s", "e",
       "t", "=", "\"", "U", "T", "F", "-", "8", "\"", " ", "/", ">", "\n",
       " ", " ", "<", "m", "e", "t", "a", " ", "n", "a", "m", "e", "=", "\"",
       "v", "i", "e", "w", "p", "o", "r", "t", "\"", " ", "c", "o", "n", "t",
       "e", "n", "t", "=", "\"", "w", "i", "d", "t", "h", "=", "d", "e", "v",
       "i", "c", "e", "-", "w", "i", "d", "t", "h", ",", " ", "i", "n", "i",
       "t", "i", "a", "l", "-", "s", "c", "a", "l", "e", "=", "1", ".", "0",
       "\"", " ", "/", ">", "\n", " ", " ", "<", "t", "i", "t", "l", "e",
       ">" >>

PageAfterTitle ==
    << " ", "|", " ", "M", "i", "g", "h", "t", "y", " ", "C", "h", "e", "e",
       "s", "e", "<", "/", "t", "i", "t", "l", "e", ">", "\n", " ", " ", "<",
       "m", "e", "t", "a", " ", "n", "a", "m", "e", "=", "\"", "a", "u", "t",
       "h", "o", "r", "\"", " ", "c", "o", "n", "t", "e", "n", "t", "=",
       "\"", "C", "o", "l", "i", "n", " ", "S", "u", "m", "m", "e", "r", "s",
       "\"", " ", "/", ">", "\n", " ", " ", "<", "l", "i", "n", "k", " ",
       "r", "e", "l", "=", "\"", "s", "t", "y", "l", "e", "s", "h", "e", "e",
       "t", "\"", " ", "h", "r", "e", "f", "=", "\"" >>

PageAfterCss ==
    << "s", "t", "y", "l", "e", ".", "c", "s", "s", "\"", " ", "/", ">",
       "\n", "<", "/", "h", "e", "a", "d", ">", "\n", "<", "b", "o", "d",
       "y", ">", "\n", " ", " ", "<", "n", "a", "v", " ", "c", "l", "a", "s",
       "s", "=", "\"", "n", "a", "v", "b", "a", "r", "\"", ">", "\n", " ",
       " ", " ", " ", "<", "d", "i", "v", " ", "c", "l", "a", "s", "s", "=",
       "\"", "n", "a", "v", "b", "a", "r", "-", "i", "n", "n", "e", "r",
       "\"", ">", "\n", " ", " ", " ", " ", " ", " ", "<", "a", " ", "c",
       "l", "a", "s", "s", "=", "\"", "n", "a", "v", "b", "a", "r", "-", "b",
       "r", "a", "n", "d", "\"", " ", "h", "r", "e", "f", "=", "\"" >>

PageAfterBrand ==
    << "\"", ">", "M", "i", "g", "h", "t", "y", " ", "C", "h", "e", "e", "s",
       "e", "<", "/", "a", ">", "\n", " ", " ", " ", " ", " ", " ", "<", "i",
       "n", "p", "u", "t", " ", "t", "y", "p", "e", "=", "\"", "c", "h", "e",
       "c", "k", "b", "o", "x", "\"", " ", "i", "d", "=", "\"", "n", "a",
       "v", "-", "t", "o", "g", "g", "l", "e", "\"", " ", "c", "l", "a", "s",
       "s", "=", "\"", "n", "a", "v", "-", "t", "o", "g", "g", "l", "e",
       "\"", " ", "/", ">", "\n", " ", " ", " ", " ", " ", " ", "<", "l",
       "a", "b", "e", "l", " ", "f", "o", "r", "=", "\"", "n", "a", "v", "-",
       "t", "o", "g", "g", "l", "e", "\"", " ", "c", "l", "a", "s", "s", "=",
       "\"", "n", "a", "v", "-", "t", "o", "g", "g", "l", "e", "-", "l", "a",
       "b", "e", "l", "\"", ">", "<", "s", "p", "a", "n", ">", "<", "/", "s",
       "p", "a", "n", ">", "<", "/", "l", "a", "b", "e", "l", ">", "\n", " ",
       " ", " ", " ", " ", " ", "<", "u", "l", " ", "c", "l", "a", "s", "s",
       "=", "\"", "n", "a", "v", "-", "l", "i", "n", "k", "s", "\"", ">",
       "\n" >>

PageAfterNav ==
    << "\n", " ", " ", " ", " ", " ", " ", "<", "/", "u", "l", ">", "\n",
       " ", " ", " ", " ", "<", "/", "d", "i", "v", ">", "\n", " ", " ", "<",
       "/", "n", "a", "v", ">", "\n", " ", " ", "<", "m", "a", "i", "n", ">",
       "\n" >>

PageTail ==
    << "\n", " ", " ", "<", "/", "m", "a", "i", "n", ">", "\n", " ", " ",
       "<", "f", "o", "o", "t", "e", "r", ">", "\n", " ", " ", " ", " ", "<",
       "p", ">", "C", "o", "p", "y", "r", "i", "g", "h", "t", " ", "C", "o",
       "l", "i", "n", " ", "S", "u", "m", "m", "e", "r", "s", " ", "2", "0",
       "0", "6", " ", "a", "n", "d", " ", "o", "t", "h", "e", "r", " ", "y",
       "e", "a", "r", "s", ".", "<", "/", "p", ">", "\n", " ", " ", "<", "/",
       "f", "o", "o", "t", "e", "r", ">", "\n", "<", "/", "b", "o", "d", "y",
       ">", "\n", "<", "/", "h", "t", "m", "l", ">", "\n" >>

DotSlash == <<".", "/">>
Doctype ==
    << "<", "!", "D", "O", "C", "T", "Y", "P", "E", " ", "h", "t", "m", "l", ">" >>
Navbar == <<"n", "a", "v", "b", "a", "r">>

\* make_page(title, nav_html, content, root_prefix); css_path is
\* root_prefix + 'style.css', whose 'style.css' opens PageAfterCss
MakePage(title, nav_html, content, root_prefix) ==
    PageHead \o title \o PageAfterTitle \o root_prefix \o PageAfterCss
        \o (IF root_prefix # <<>> THEN root_prefix ELSE DotSlash)
        \o PageAfterBrand \o nav_html \o PageAfterNav \o content \o PageTail

\* the lengths of the two windows the detector looks at
DoctypeWindow == 50
NavbarWindow == 500

\* '<!DOCTYPE html>' in sample[:50] and 'navbar' in sample[:500]
LooksModernized(sample) ==
    /\ Contains(Slice(sample, 0, DoctypeWindow), Doctype)
    /\ Contains(Slice(sample, 0, NavbarWindow), Navbar)

\* Python's s * n
Repeat(s, n) == [i \in 1..(n * Len(s)) |-> s[((i - 1) % Len(s)) + 1]]

\* relative_root for a file depth directories below the site root
RelativeRoot(d) == IF d = 0 THEN <<>> ELSE Repeat(<<".", ".", "/">>, d)

\* the arguments make_page is given
MaxTitleLen == 200
MaxDirDepth == 2
Titles ==
    {Repeat(<<"x">>, n) : n \in 0..MaxTitleLen}
        \cup {Repeat(<<"x">>, n) \o Navbar : n \in 0..MaxTitleLen}
NavHtmls == {<<>>, <<"<", "l", "i", ">", "x", "<", "/", "l", "i", ">">>}
Contents == {<<>>, <<"x">>}

PageInit ==
    /\ args \in [title : Titles, nav_html : NavHtmls, content : Contents,
                 root_prefix : {RelativeRoot(d) : d \in 0..MaxDirDepth}]
    /\ pc = "assemble"
    /\ page = <<>>
    /\ modernized = FALSE
    /\ ScanIdle
    /\ MainIdle

\* output = make_page(title, nav_html, content, root_prefix)
AssemblePage ==
    /\ pc = "assemble"
    /\ page' = MakePage(args.title, args.nav_html, args.content, args.root_prefix)
    /\ pc' = "assembled"
    /\ UNCHANGED <<args, modernized, scanVars, mainVars>>

\* the generated document is read back as the sample of a later run
DetectPage ==
    /\ pc = "assembled"
    /\ modernized' = LooksModernized(page)
    /\ pc' = "detected"
    /\ UNCHANGED <<args, page, scanVars, mainVars>>

PageNext == AssemblePage \/ DetectPage

SpecPage == PageInit /\ [][PageNext]_vars

(* C5: round-trip stability: whatever the title, navigation markup, content
   and root prefix, the document make_page produces is classified as already
   modernized by the driver's detector. *)
C5_RoundTrip == pc = "detected" => modernized

-----------------------------------------------------------------------------
(* process_file and what it calls *)

UpperCase ==
    << "A", "B", "C", "D", "E", "F", "G", "H", "I", "J", "K", "L", "M", "N",
       "O", "P", "Q", "R", "S", "T", "U", "V", "W", "X", "Y", "Z" >>
LowerCase ==
    << "a", "b", "c", "d", "e", "f", "g", "h", "i", "j", "k", "l", "m", "n",
       "o", "p", "q", "r", "s", "t", "u", "v", "w", "x", "y", "z" >>

\* str.lower() on ASCII text
LowerChar(c) ==
    IF \E i \in 1..Len(UpperCase) : UpperCase[i] = c
    THEN LowerCase[CHOOSE i \in 1..Len(UpperCase) : UpperCase[i] = c]
    ELSE c
Lower(s) == [i \in 1..Len(s) |-> LowerChar(s[i])]

\* str.strip()
Strip(s) ==
    LET keep == {i \in 1..Len(s) : s[i] \notin Space}
    IN  IF keep = {} THEN <<>>
        ELSE SubSeq(s, CHOOSE i \in keep : \A j \in keep : i <= j,
                       CHOOSE i \in keep : \A j \in keep : j <= i)

SandvoxLit == <<"s", "a", "n", "d", "v", "o", "x">>
MainContentLit ==
    << "m", "a", "i", "n", "-", "c", "o", "n", "t", "e", "n", "t" >>
TitleOpenLit == <<"<", "t", "i", "t", "l", "e">>
TitleCloseLit == <<"<", "/", "t", "i", "t", "l", "e", ">">>
IdMainLit ==
    << "i", "d", "=", "\"", "m", "a", "i", "n", "-", "c", "o", "n", "t", "e",
       "n", "t", "\"" >>
DefaultTitle ==
    << "M", "i", "g", "h", "t", "y", " ", "C", "h", "e", "e", "s", "e" >>

\* extract_title: re.search(r'<title[^>]*>(.*?)</title>', html, DOTALL | IGNORECASE),
\* then the first '|'-separated part of the stripped group, stripped
ExtractTitle(s) ==
    LET low == Lower(s)
        bodyAt(p) == Find(s, Gt, p + Len(TitleOpenLit)) + 1
        hits == {p \in 0..(Len(s) - 1) :
                    /\ StartsWith(low, p, TitleOpenLit)
                    /\ bodyAt(p) # 0
                    /\ Find(low, TitleCloseLit, bodyAt(p)) # -1}
    IN  IF hits = {} THEN DefaultTitle
        ELSE LET p == CHOOSE x \in hits : \A y \in hits : x <= y
                 raw == Strip(Slice(s, bodyAt(p), Find(low, TitleCloseLit, bodyAt(p))))
                 bar == Find(raw, <<"|">>, 0)
             IN  Strip(IF bar = -1 THEN raw ELSE Slice(raw, 0, bar))

\* m.end() of re.search(r'<div\s+id="main-content"[^>]*>', html, IGNORECASE), or -1
MainTagEnd(s) ==
    LET low == Lower(s)
        \* the first position after the white space that follows '<div' at p
        idAt(p) ==
            LET stops == {q \in (p + 4)..Len(s) : q = Len(s) \/ s[q + 1] \notin Space}
            IN  CHOOSE q \in stops : \A r \in stops : q <= r
        hits == {p \in 0..(Len(s) - 1) :
                    /\ StartsWith(low, p, OpenLit)
                    /\ idAt(p) > p + 4
                    /\ StartsWith(low, idAt(p), IdMainLit)
                    /\ Find(s, Gt, idAt(p) + Len(IdMainLit)) # -1}
    IN  IF hits = {} THEN -1
        ELSE LET p == CHOOSE x \in hits : \A y \in hits : x <= y
             IN  Find(s, Gt, idAt(p) + Len(IdMainLit)) + 1

\* extract_main_content
ExtractMainContent(s) ==
    IF MainTagEnd(s) = -1 THEN <<>>
    ELSE ExtractDivContent(s, MainTagEnd(s)).text

\* balance_divs(html) as a whole.  The tests of an iteration read only html
\* and pos, so an iteration that does not move pos forward (it can only set
\* it to 0) brings the scan back to the same pos again and again: the call
\* never returns.
RECURSIVE BalanceLoop(_, _)
BalanceLoop(s, st) ==
    IF ~(st.pos < Len(s)) THEN [hang |-> FALSE, text |-> st.result]
    ELSE LET n == BalanceIter(s, st)
         IN  IF n.pos <= st.pos THEN [hang |-> TRUE, text |-> <<>>]
             ELSE BalanceLoop(s, n)

BalanceDivs(s) == BalanceLoop(s, [pos |-> 0, depth |-> 0, result |-> <<>>])

\* clean_content on a text that holds no comment, span, br, p, i, line break
\* or attribute: no substitution rule applies to it, which leaves
\* balance_divs and the final strip()
CleanContent(content) ==
    LET b == BalanceDivs(content)
    IN  IF b.hang THEN b ELSE [hang |-> FALSE, text |-> Strip(b.text)]

\* NAV_ITEMS
NAV_ITEMS ==
    << [label |-> <<"H", "o", "m", "e">>, href |-> <<"i", "n", "d", "e", "x", ".", "h", "t", "m", "l">>],
       [label |-> <<"W", "h", "a", "t">>, href |-> <<"w", "h", "a", "t", ".", "h", "t", "m", "l">>],
       [label |-> <<"W", "h", "o">>, href |-> <<"w", "h", "o", ".", "h", "t", "m", "l">>],
       [label |-> <<"W", "h", "y">>, href |-> <<"w", "h", "y", ".", "h", "t", "m", "l">>],
       [label |-> <<"H", "e", "a", "d", "a", "c", "h", "e", "s">>, href |-> <<"h", "e", "a", "d", "a", "c", "h", "e", "s", "/">>],
       [label |-> <<"P", "a", "w", "l", "e", "t", " ", "B", "o", "x">>, href |-> <<"p", "o", "g", "/", "t", "h", "e", "_", "p", "a", "w", "l", "e", "t", "_", "b", "o", "x", "/">>] >>

\* get_active_nav, of a path relative to the site root
GetActiveNav(rel) ==
    IF rel = <<"i", "n", "d", "e", "x", ".", "h", "t", "m", "l">> THEN <<"i", "n", "d", "e", "x", ".", "h", "t", "m", "l">>
    ELSE IF StartsWith(rel, 0, <<"w", "h", "a", "t">>) THEN <<"w", "h", "a", "t", ".", "h", "t", "m", "l">>
    ELSE IF StartsWith(rel, 0, <<"w", "h", "o">>) THEN <<"w", "h", "o", ".", "h", "t", "m", "l">>
    ELSE IF StartsWith(rel, 0, <<"w", "h", "y">>) THEN <<"w", "h", "y", ".", "h", "t", "m", "l">>
    ELSE IF \/ StartsWith(rel, 0, <<"h", "e", "a", "d", "a", "c", "h", "e", "s", "/">>)
            \/ StartsWith(rel, 0, <<"m", "i", "g", "r", "a", "i", "n", "e", "s", "/">>)
            \/ StartsWith(rel, 0, <<"d", "a", "m", "a", "g", "e", "/">>)
    THEN <<"h", "e", "a", "d", "a", "c", "h", "e", "s", "/">>
    ELSE IF StartsWith(rel, 0, <<"p", "o", "g", "/">>) THEN <<"p", "o", "g", "/", "t", "h", "e", "_", "p", "a", "w", "l", "e", "t", "_", "b", "o", "x", "/">>
    ELSE <<>>

\* relative_root: '../' for every directory between the site root and the file
PathDepth(rel) == Cardinality({i \in 1..Len(rel) : rel[i] = "/"})

NavLiOpen ==
    << " ", " ", " ", " ", " ", " ", " ", " ", " ", " ", "<", "l", "i" >>
NavActive ==
    << " ", "c", "l", "a", "s", "s", "=", "\"", "a", "c", "t", "i", "v", "e",
       "\"" >>
NavHrefOpen == <<">", "<", "a", " ", "h", "r", "e", "f", "=", "\"">>
NavHrefClose == <<"\"", ">">>
NavLiClose == <<"<", "/", "a", ">", "<", "/", "l", "i", ">">>

\* build_nav
NavItem(root_prefix, active, item) ==
    NavLiOpen \o (IF item.href = active THEN NavActive ELSE <<>>) \o NavHrefOpen
        \o root_prefix \o item.href \o NavHrefClose \o item.label \o NavLiClose

RECURSIVE JoinLines(_)
JoinLines(ls) ==
    IF ls = <<>> THEN <<>>
    ELSE IF Len(ls) = 1 THEN ls[1]
    ELSE ls[1] \o <<"\n">> \o JoinLines(Tail(ls))

BuildNav(root_prefix, active) ==
    JoinLines([i \in 1..Len(NAV_ITEMS) |-> NavItem(root_prefix, active, NAV_ITEMS[i])])

\* process_file(file_path, original_html): how the call ends ("false" and
\* "true" are its return values, "hang" a call that never returns) and the
\* text it writes to file_path when it returns True.  The snapshot holds no
\* index container, so extract_index_section returns (content, '', '').
ProcessFile(rel, original_html) ==
    IF /\ ~Contains(Lower(original_html), SandvoxLit)
       /\ ~Contains(original_html, MainContentLit)
    THEN [outcome |-> "false", output |-> <<>>]
    ELSE LET title == ExtractTitle(original_html)
             main_content == ExtractMainContent(original_html)
         IN  IF main_content = <<>>
             THEN [outcome |-> "false", output |-> <<>>]
             ELSE LET content == CleanContent(main_content)
                      root_prefix == RelativeRoot(PathDepth(rel))
                      nav_html == BuildNav(root_prefix, GetActiveNav(rel))
                  IN  IF content.hang
                      THEN [outcome |-> "hang", output |-> <<>>]
                      ELSE [outcome |-> "true",
                            output |-> MakePage(title, nav_html, content.text,
                                                root_prefix)]

-----------------------------------------------------------------------------
(* main *)

\* candidate paths, relative to the site root, in sorted order
PathIndex == <<"i", "n", "d", "e", "x", ".", "h", "t", "m", "l">>
PathPog == <<"p", "o", "g", "/", "a", ".", "h", "t", "m", "l">>
PathWhat == <<"w", "h", "a", "t", ".", "h", "t", "m", "l">>
AllPaths == << PathIndex, PathPog, PathWhat >>

\* the documents a candidate may hold
DocPlain ==
    << "<", "t", "i", "t", "l", "e", ">", "N", "o", "t", "e", "s", "<", "/",
       "t", "i", "t", "l", "e", ">", "x" >>
DocNoMain ==
    << "<", "t", "i", "t", "l", "e", ">", "A", " ", "|", " ", "S", "a", "n",
       "d", "v", "o", "x", "<", "/", "t", "i", "t", "l", "e", ">" >>
DocGood ==
    << "<", "t", "i", "t", "l", "e", ">", "T", " ", "|", " ", "M", "<", "/",
       "t", "i", "t", "l", "e", ">", "<", "d", "i", "v", " ", "i", "d", "=",
       "\"", "m", "a", "i", "n", "-", "c", "o", "n", "t", "e", "n", "t",
       "\"", ">", "<", "d", "i", "v", ">", " ", "x", "<", "/", "d", "i", "v",
       ">", "<", "/", "d", "i", "v", ">", "<", "/", "d", "i", "v", ">" >>
DocOrphan ==
    << "S", "a", "n", "d", "v", "o", "x", "<", "d", "i", "v", " ", "i", "d",
       "=", "\"", "m", "a", "i", "n", "-", "c", "o", "n", "t", "e", "n", "t",
       "\"", ">", "x", "<", "/", "d", "i", "v", " ", ">", "<", "/", "d", "i",
       "v", ">", " ", "<", "d", "i", "v", ">", "y", "<", "/", "d", "i", "v",
       ">" >>
DocEmpty ==
    << "<", "d", "i", "v", " ", "i", "d", "=", "\"", "m", "a", "i", "n", "-",
       "c", "o", "n", "t", "e", "n", "t", "\"", ">", "<", "/", "d", "i", "v",
       ">" >>
DocTruncated ==
    << "s", "a", "n", "d", "v", "o", "x", "<", "d", "i", "v", " ", "i", "d",
       "=", "\"", "m", "a", "i", "n", "-", "c", "o", "n", "t", "e", "n", "t",
       "\"", ">", "<", "d", "i", "v", " ", "x" >>
DocModern == MakePage(<<"T">>, BuildNav(<<>>, <<>>), <<"x">>, <<>>)

LegacyDocs == {DocPlain, DocNoMain, DocGood, DocOrphan, DocEmpty, DocTruncated}
Docs == LegacyDocs \cup {DocModern}

\* what the last commit may hold for a candidate
CommittedDocs == {DocPlain, DocGood, DocTruncated}

Range(f) == {f[i] : i \in DOMAIN f}

\* the sorted candidate lists of at most n files
MaxFiles == 2
FileLists(n) ==
    {fs \in UNION {[1..k -> Range(AllPaths)] : k \in 0..n} :
        \A i, j \in DOMAIN fs :
            i < j => \E a, b \in DOMAIN AllPaths :
                        a < b /\ AllPaths[a] = fs[i] /\ AllPaths[b] = fs[j]}

Init ==
    /\ files \in FileLists(MaxFiles)
    /\ disk \in [Range(files) -> Docs]
    /\ base = disk
    /\ readable \in SUBSET Range(files)
    /\ pc = "sample"
    /\ originals = <<>>
    /\ idx = 0
    /\ modified = 0
    /\ attempted = {}
    /\ reported = {}
    /\ called = {}
    /\ written = {}
    /\ trues = {}
    /\ uncaught = "none"
    /\ restore_failed = FALSE
    /\ last = None
    /\ ScanIdle
    /\ PageIdle

\* sample = files[0].read_text(...), outside any try
ReadSample ==
    /\ pc = "sample"
    /\ IF files = <<>>
       THEN /\ uncaught' = "IndexError"
            /\ pc' = "crashed"
       ELSE IF files[1] \notin readable
       THEN /\ uncaught' = "OSError"
            /\ pc' = "crashed"
       ELSE /\ uncaught' = uncaught
            /\ pc' = IF LooksModernized(disk[files[1]]) THEN "restore" ELSE "snapshot"
    /\ idx' = 1
    /\ UNCHANGED <<files, disk, base, readable, originals, modified, attempted,
                   reported, called, written, trues, restore_failed, last>>
    /\ UNCHANGED <<scanVars, pageVars>>

\* a main without the return: it goes on to the snapshot reads
AfterRestoreFailureGoOn == "snapshot"

\* where main goes when git checkout returned a nonzero code: return
AfterRestoreFailure == "done"

\* git checkout HEAD -- . returns a nonzero code
RestoreFails ==
    /\ pc = "restore"
    /\ restore_failed' = TRUE
    /\ pc' = AfterRestoreFailure
    /\ UNCHANGED <<files, disk, base, readable, originals, idx, modified, attempted,
                   reported, called, written, trues, uncaught, last>>
    /\ UNCHANGED <<scanVars, pageVars>>

\* git checkout HEAD -- . returns 0: every candidate holds its committed text
RestoreSucceeds ==
    /\ pc = "restore"
    /\ \E head \in [Range(files) -> CommittedDocs] :
        /\ disk' = head
        /\ base' = head
    /\ pc' = "snapshot"
    /\ UNCHANGED <<files, readable, originals, idx, modified, attempted,
                   reported, called, written, trues, uncaught, restore_failed, last>>
    /\ UNCHANGED <<scanVars, pageVars>>

\* a main with one loop: each file is processed right after its read
NextAfterReadInterleaved(i, n) == [pc |-> "process", idx |-> i]

\* where main goes after the snapshot read of files[i], of n files: the
\* first loop reads on, and the second loop starts only when it is over
NextAfterRead(i, n) ==
    IF i < n THEN [pc |-> "snapshot", idx |-> i + 1]
    ELSE [pc |-> "process", idx |-> 1]

\* one iteration of the first `for path in files`: try the read, store the
\* text or print the error
SnapshotRead ==
    /\ pc = "snapshot"
    /\ idx <= Len(files)
    /\ LET path == files[idx]
       IN  /\ attempted' = attempted \cup {path}
           /\ IF path \in readable
              THEN /\ originals' = (path :> disk[path]) @@ originals
                   /\ reported' = reported
              ELSE /\ originals' = originals
                   /\ reported' = reported \cup {path}
    /\ \E n \in {NextAfterRead(idx, Len(files))} :
        /\ pc' = n.pc
        /\ idx' = n.idx
    /\ UNCHANGED <<files, disk, base, readable, modified, called, written, trues,
                   uncaught, restore_failed, last>>
    /\ UNCHANGED <<scanVars, pageVars>>

\* one iteration of the second `for path in files`: path not in originals
ProcessSkipUnread ==
    /\ pc = "process"
    /\ idx <= Len(files)
    /\ files[idx] \notin DOMAIN originals
    /\ idx' = idx + 1
    /\ UNCHANGED <<pc, files, disk, base, readable, originals, modified, attempted,
                   reported, called, written, trues, uncaught, restore_failed, last>>
    /\ UNCHANGED <<scanVars, pageVars>>

\* one iteration of the second `for path in files`:
\* result = process_file(path, originals[path]), modified += 1 on True
ProcessCall ==
    /\ pc = "process"
    /\ idx <= Len(files)
    /\ files[idx] \in DOMAIN originals
    /\ \E path \in {files[idx]} : \E r \in {ProcessFile(path, originals[path])} :
           /\ called' = called \cup {path}
           /\ disk' = IF r.outcome = "true"
                      THEN [disk EXCEPT ![path] = r.output] ELSE disk
           /\ written' = IF r.outcome = "true" THEN written \cup {path} ELSE written
           /\ trues' = IF r.outcome = "true" THEN trues \cup {path} ELSE trues
           /\ modified' = IF r.outcome = "true" THEN modified + 1 ELSE modified
           /\ pc' = IF r.outcome = "hang" THEN "hung" ELSE pc
           /\ idx' = IF r.outcome = "hang" THEN idx ELSE idx + 1
           /\ last' = [path |-> path, snapshot |-> originals[path],
                       outcome |-> r.outcome, before |-> disk, after |-> disk']
    /\ UNCHANGED <<files, base, readable, originals, attempted, reported, uncaught,
                   restore_failed>>
    /\ UNCHANGED <<scanVars, pageVars>>

\* the second loop is over: print the summary
Finish ==
    /\ pc = "process"
    /\ idx > Len(files)
    /\ pc' = "done"
    /\ UNCHANGED <<scanVars, pageVars, mainVars>>

Next ==
    \/ ReadSample
    \/ RestoreFails
    \/ RestoreSucceeds
    \/ SnapshotRead
    \/ ProcessSkipUnread
    \/ ProcessCall
    \/ Finish

Spec == Init /\ [][Next]_vars

(* C6: an unreadable candidate is non-fatal, the first one included: its
   read error is caught and reported, that file alone is left out, and the
   run goes on to call process_file for every readable candidate. *)
C6_UnreadableNonFatal ==
    /\ uncaught # "OSError"
    /\ (pc = "done" /\ ~restore_failed) =>
        \A p \in Range(files) :
            IF p \in readable THEN p \in called
            ELSE p \in reported /\ p \notin called

(* C7: when the sample looks already modernized and the version-control
   restore fails, the run stops: no snapshot read is attempted, process_file
   is never called and no candidate is written. *)
C7_RestoreFailureAborts ==
    restore_failed =>
        /\ pc = "done"
        /\ attempted = {}
        /\ DOMAIN originals = {}
        /\ called = {}
        /\ written = {}
        /\ disk = base

\* the restore failed and the run is over, with a candidate on disk that
\* process_file would have rewritten
C7_Witness ==
    /\ restore_failed
    /\ pc = "done"
    /\ \E p \in Range(files) : ProcessFile(p, disk[p]).outcome = "true"

(* C8: snapshot before mutation: no candidate is overwritten until the read
   of every candidate has been attempted and every text that could be read
   is stored; a stored text is the one the file held before any overwrite,
   and an overwritten file holds what process_file makes of its stored text. *)
C8_SnapshotBeforeMutation ==
    /\ written # {} =>
        /\ attempted = Range(files)
        /\ DOMAIN originals = Range(files) \cap readable
    /\ \A p \in DOMAIN originals : originals[p] = base[p]
    /\ \A p \in DOMAIN disk :
        IF p \in written
        THEN /\ p \in DOMAIN originals
             /\ disk[p] = ProcessFile(p, originals[p]).output
        ELSE disk[p] = base[p]

\* a finished run that has overwritten two candidates
C8_Witness ==
    /\ pc = "done"
    /\ Cardinality(written) >= 2

\* process_file returns False without writing for such a snapshot
Skipped(snapshot) ==
    \/ /\ ~Contains(Lower(snapshot), SandvoxLit)
       /\ ~Contains(snapshot, MainContentLit)
    \/ ExtractMainContent(snapshot) = <<>>

(* C9: process_file writes at most its own path and only on success: for a
   snapshot with neither marker, or with an empty main content, it returns
   False and leaves every file unchanged; for every other snapshot it
   overwrites exactly file_path and returns True; modified counts the True
   results and never exceeds the number of files read. *)
C9_ProcessFileFrame ==
    /\ last # None =>
        IF Skipped(last.snapshot)
        THEN last.outcome = "false" /\ last.after = last.before
        ELSE /\ last.outcome = "true"
             /\ last.path \in written
             /\ \A q \in DOMAIN last.before :
                    q # last.path => last.after[q] = last.before[q]
    /\ modified = Cardinality(trues)
    /\ modified <= Cardinality(DOMAIN originals)

=============================================================================
